---- MODULE Spec2Model ----
(***************************************************************************)
(* Idempotent operation processing and dead-letter pipeline of the         *)
(* conversations service: the job queue engine (job_queue.py), the webhook *)
(* event processor (webhook_events.py), the retry/dedupe helpers           *)
(* (retry_utils.py) and the dead-letter store (dlq.py).                    *)
(*                                                                         *)
(* The store is PostgreSQL at READ COMMITTED: every session sees the       *)
(* committed rows plus its own uncommitted writes, an UPDATE takes a row   *)
(* lock that is held until the session commits, and an UPDATE of a row     *)
(* locked by another session waits for that commit.                        *)
(***************************************************************************)
EXTENDS Integers, Sequences, FiniteSets, TLC

\* ---------------------------------------------------------------- bounds
MaxJobs == 2
MaxClock == 1
MaxLimit == 2
MaxEvents == 2
MaxRetries == 3
MaxAttempt == 12
MaxDlq == 1
MaxNow == 1
MaxMarks == 3
MaxDispatch == 3
MaxTurns == 2

\* ------------------------------------------------------- input domains
Workspaces == {"T1", "T2"}
NoOp == "None"
OperationIds == {NoOp, "O1"}
JobTypes == {"example_job", "send_email"}
Priorities == {0, 1}
DefaultMaxAttempts == 3
MaxAttemptsSet == {1, DefaultMaxAttempts}
Payloads == {"p"}
Callers == {"c1", "c2"}
Workers == {"k1", "k2"}
Hooks == {"h1", "h2"}
Retriers == {"r1", "r2"}
Pipes == {"p1", "p2"}
Markers == {"m1", "m2"}
TurnCallers == {"u1", "u2"}
Requests == {"q1", "q2"}
EventTypes == {"message"}
ExternalIds == {"x1"}
JobIds == 1..(MaxJobs + 1)
EventIds == 1..MaxEvents
DlqIds == 1..MaxDlq
Limits == 1..MaxLimit
Times == 0..MaxClock

\* add_to_dlq's defaults
DefaultRetryCount == 0
DefaultMaxRetries == 3
\* retry_failed_events: the attempt ceiling, in the loop and in the selection
RetryCeiling == 3
RetrySelectBelow == 3
\* retry_async's default number of tries
DefaultRetries == 3

\* ExponentialBackoff's defaults, in minutes
BaseDelayMinutes == 1
MaxDelayMinutes == 60 * 24
Multiplier == 2
\* random.uniform(0.75, 1.25): the factors, in hundredths
JitterScale == 100
JitterLow == 75
JitterHigh == 125
Jitters == JitterLow..JitterHigh
\* multiplier ** (attempt - 1) is a float power: 2.0 ** 1023 is the largest
\* one there is, and 2.0 ** 1024 raises OverflowError
FloatMaxExponent == 1023
\* the attempt argument of calculate_delay: around zero, up to where the delay
\* is capped, and around the largest power
BackoffAttempts ==
    ((0 - 1)..MaxAttempt) \cup {FloatMaxExponent, FloatMaxExponent + 1, FloatMaxExponent + 2}

\* retry_count and max_retries as add_to_dlq's callers pass them: the defaults,
\* a ceiling of one, and retry_count = max_retries as job_queue.py and
\* webhook_events.py pass them for a job or event that used up its attempts
DlqMaxRetriesSet == {1, DefaultMaxRetries}
DlqAddArgs ==
    {a \in [retry_count : {DefaultRetryCount} \cup DlqMaxRetriesSet, max_retries : DlqMaxRetriesSet] :
        a.retry_count \in {DefaultRetryCount, a.max_retries}}
\* next_retry_delay_minutes: not supplied, or supplied; DLQService's default is
\* None, DLQRepository's default is 5
NoDelay == 0 - 1
RepositoryDelay == 5
DelayArgs == {NoDelay, RepositoryDelay}
\* the two implementations of mark_retry_attempt
Vias == {"DLQService", "DLQRepository"}
\* the calls that differ: with a supplied delay both implementations do the same
MarkCalls == {c \in [via : Vias, delay : DelayArgs] : c.via = "DLQRepository" => c.delay = NoDelay}
\* the jitter factors drawn while an entry's retry is scheduled
DlqJitters == {JitterLow, JitterHigh}

\* the X-Operation-Id header of a request that passes DedupeMiddleware
DedupeHeaders == OperationIds \cup {"O2"}

\* NULL of a nullable timestamp column / of a nullable text column
NullTime == -1
NullText == "NULL"

\* _process_job: only "example_job" has a handler
KnownJobTypes == {"example_job"}

\* arguments of enqueue_job; max_attempts is varied for the jobs that can fail
EnqueueArgs ==
    {a \in [workspace_id : Workspaces, operation_id : OperationIds,
            job_type : JobTypes, payload : Payloads, priority : Priorities,
            max_attempts : MaxAttemptsSet] :
        a.job_type \in KnownJobTypes => a.max_attempts = DefaultMaxAttempts}

\* jobs without an operation id, of one priority
QueueArgs ==
    {a \in EnqueueArgs : a.workspace_id = "T1" /\ a.operation_id = NoOp /\ a.priority = 0}

\* jobs without an operation id that differ in priority only
OrderArgs ==
    {a \in EnqueueArgs : /\ a.workspace_id = "T1" /\ a.operation_id = NoOp
                         /\ a.job_type \in KnownJobTypes}

\* jobs of every workspace that carry an operation id, of one priority
DedupeArgs == {a \in EnqueueArgs : a.priority = 0 /\ a.operation_id # NoOp}

\* arguments of WebhookEventsService.process_webhook_event
HookPayloads == {"p", "q"}
HookArgs ==
    [workspace_id : Workspaces, operation_id : OperationIds, event_type : EventTypes,
     external_id : ExternalIds, payload : HookPayloads]

\* the operation_id of a job or event handed to retry_utils: a str (a UUID in
\* its usual spelling, a UUID in another spelling that uuid.UUID accepts, or
\* no UUID at all), None, or a uuid.UUID object as the ORM rows carry it
StrOp(text) == [type |-> "str", text |-> text]
NoneOp == [type |-> "NoneType", text |-> NoOp]
UuidOp(text) == [type |-> "UUID", text |-> text]
UuidTexts == OperationIds \ {NoOp}
UrnSpelling(text) == CASE text = "O1" -> "urn:uuid:O1"
PipeOperationIds ==
    UuidTexts \cup {UrnSpelling(text) : text \in UuidTexts} \cup {"not-a-uuid", NoOp}
PipeOps ==
    {StrOp(text) : text \in PipeOperationIds \ {NoOp}} \cup {NoneOp}
        \cup {UuidOp(text) : text \in UuidTexts}
PipeItems == [kind : {"job", "event"}, workspace_id : Workspaces, operation_id : PipeOps]

\* the thread, of workspace T1, and the turn requests: the workspace of
\* X-Workspace-Id, the thread of the path, the X-Operation-Id header (absent,
\* a UUID in two spellings, or no UUID) and the content of the body; a request
\* that is refused before its body matters is sent with one body only
Threads == {"th1"}
ThreadWorkspace == "T1"
TurnHeaders == {NoOp, "O1", UrnSpelling("O1"), "not-a-uuid"}
Contents == {"a", "b"}
TurnArgs ==
    {a \in [workspace_id : Workspaces, thread_id : Threads, x_operation_id : TurnHeaders,
            content : Contents] :
        \/ a.workspace_id = ThreadWorkspace /\ a.x_operation_id # "not-a-uuid"
        \/ a.workspace_id = ThreadWorkspace /\ a.content = "a"
        \/ a.x_operation_id = NoOp /\ a.content = "a"}

\* work of one workspace, for callers that race on an operation id
RaceItems == {item \in PipeItems : item.workspace_id = "T1"}

\* the retries argument of retry_async
RetriesArgs == 0..MaxRetries

\* jobs that the ledger can find completed
LedgerArgs ==
    {a \in EnqueueArgs : /\ a.operation_id # NoOp /\ a.priority = 0
                         /\ a.job_type \in KnownJobTypes}

VARIABLES
    jobs,       \* committed job_queue table: id -> row
    dlq,        \* committed dead_letter_queue table: sequence of rows
    now,        \* the application clock, datetime.now(timezone.utc)
    callers,    \* enqueue_job callers: position, arguments, result
    workers,    \* process_pending_jobs workers: position, batch, counters
    tx,         \* per worker session: uncommitted job_queue writes (id -> row)
    claimedBy,  \* history: the workers that ran _mark_job_started on a job
    last,       \* history: the step that was taken last
    events,     \* committed webhook_events table: id -> row
    eventIds,   \* the number of webhook_events ids handed out (uuid4 never repeats)
    hooks,      \* process_webhook_event callers: position, session, result
    retriers,   \* retry_failed_events callers: position, loaded events, session
    runs,       \* history: how often the handler ran for an event
    turns,      \* committed llm_turns table: the operation_id of every row
    pipes,      \* callers of retry_utils.process_job / process_webhook_event
    effects,    \* how often the handler's side effect was applied, per operation id
    backoff,    \* the last call of ExponentialBackoff.calculate_delay and its result
    markers,    \* DLQService callers: position, session, result
    dlqGone,    \* the ids of the dead_letter_queue rows that were deleted
    marked,     \* history: per dead_letter_queue id, how it was added and marked
    messages,   \* committed conversation_messages table: sequence of rows
    audits,     \* committed audit_log table: sequence of rows
    msgIds,     \* the number of message ids handed out (uuid4 never repeats)
    reqs,       \* turn requests in flight: position, arguments, response
    turners,    \* create_llm_turn callers: position, operation_id, result
    processed_operations, \* DedupeMiddleware's dict: operation key -> time
    forwarded   \* history: per X-Operation-Id, how often the request went downstream

jobVars == <<jobs, callers, workers, tx, claimedBy>>
hookVars == <<events, eventIds, hooks, retriers, runs>>
pipeVars == <<turns, pipes, effects>>
dlqVars == <<backoff, markers, dlqGone, marked>>
httpVars == <<messages, audits, msgIds, reqs, turners, processed_operations, forwarded>>
vars == <<jobs, dlq, now, callers, workers, tx, claimedBy, last, events, eventIds,
          hooks, retriers, runs, turns, pipes, effects, backoff, markers, dlqGone, marked,
          messages, audits, msgIds, reqs, turners, processed_operations, forwarded>>

\* ------------------------------------------------------------ job_queue
ActiveStatuses == {"pending", "processing", "completed"}

NewJob(a, t) ==
    [workspace_id |-> a.workspace_id, operation_id |-> a.operation_id,
     job_type |-> a.job_type, payload |-> a.payload, status |-> "pending",
     priority |-> a.priority, attempts |-> 0, max_attempts |-> a.max_attempts,
     created_at |-> t, started_at |-> NullTime, completed_at |-> NullTime,
     failed_at |-> NullTime, error_message |-> NullText]

GetJobByOperationId_NotPending(J, workspace_id, operation_id) ==
    {id \in DOMAIN J : /\ J[id].workspace_id = workspace_id
                       /\ J[id].operation_id = operation_id
                       /\ J[id].status \in {"processing", "completed"}}

GetJobByOperationId_AnyStatus(J, workspace_id, operation_id) ==
    {id \in DOMAIN J : /\ J[id].workspace_id = workspace_id
                       /\ J[id].operation_id = operation_id}

\* the rows _get_job_by_operation_id's statement matches
GetJobByOperationId(J, workspace_id, operation_id) ==
    {id \in DOMAIN J : /\ J[id].workspace_id = workspace_id
                       /\ J[id].operation_id = operation_id
                       /\ J[id].status \in ActiveStatuses}

\* scalar_one_or_none(): the row, None, or MultipleResultsFound
Ok(id) == [kind |-> "ok", id |-> id]
NoneFound == [kind |-> "none", id |-> 0]
MultipleResultsFound == [kind |-> "MultipleResultsFound", id |-> 0]

ScalarOneOrNone(S) ==
    IF S = {} THEN NoneFound
    ELSE IF Cardinality(S) = 1 THEN Ok(CHOOSE id \in S : TRUE)
    ELSE MultipleResultsFound

\* the dedupe read of enqueue_job (skipped when operation_id is None)
EnqueueLookup(J, a) ==
    IF a.operation_id # NoOp
    THEN ScalarOneOrNone(GetJobByOperationId(J, a.workspace_id, a.operation_id))
    ELSE NoneFound

NextId(J) == Cardinality(DOMAIN J) + 1

InsertJob(J, a, t) == [id \in DOMAIN J \cup {NextId(J)} |->
                          IF id \in DOMAIN J THEN J[id] ELSE NewJob(a, t)]

\* enqueue_job run start to end with nothing in between
EnqueueJob(J, a, t) ==
    LET found == EnqueueLookup(J, a) IN
    IF found.kind = "none"
    THEN [result |-> Ok(NextId(J)), jobs |-> InsertJob(J, a, t)]
    ELSE [result |-> found, jobs |-> J]

Before_PriorityAsc(a, b) ==
    \/ a.priority < b.priority
    \/ a.priority = b.priority /\ a.created_at < b.created_at

\* ORDER BY priority DESC, created_at ASC
Before(a, b) ==
    \/ a.priority > b.priority
    \/ a.priority = b.priority /\ a.created_at < b.created_at

First_Last(J, S) == {x \in S : \A y \in S : ~Before(J[x], J[y])}

First(J, S) == {x \in S : \A y \in S : ~Before(J[y], J[x])}

RECURSIVE OrderByLimit(_, _, _)
OrderByLimit(J, S, n) ==
    IF n = 0 \/ S = {} THEN {<<>>}
    ELSE UNION {{<<x>> \o s : s \in OrderByLimit(J, S \ {x}, n - 1)} : x \in First(J, S)}

\* the result lists _get_pending_jobs can return (rows that tie come in any order)
GetPendingJobs(J, limit) ==
    OrderByLimit(J, {id \in DOMAIN J : J[id].status = "pending"}, limit)

\* _process_job raises ValueError for every other job type
ProcessJobRaises(job_type) == job_type \notin KnownJobTypes
UnknownJobType == "Unknown job type"

AttemptsExhausted_Gt(attempts, max_attempts) == attempts > max_attempts

\* line 94: the attempts are used up
AttemptsExhausted(attempts, max_attempts) == attempts >= max_attempts

\* ------------------------------------------------------- sessions
NoRows == [id \in {} |-> 0]

\* what the session of worker w reads
View(w) == [id \in DOMAIN jobs |-> IF id \in DOMAIN tx[w] THEN tx[w][id] ELSE jobs[id]]

LockedByOther(w, id) == \E o \in Workers \ {w} : id \in DOMAIN tx[o]

Write(w, id, row) == [i \in DOMAIN tx[w] \cup {id} |-> IF i = id THEN row ELSE tx[w][i]]

Committed(J, T) == [id \in DOMAIN J |-> IF id \in DOMAIN T THEN T[id] ELSE J[id]]

\* ---------------------------------------------------- dead_letter_queue
DlqEntry(workspace_id, operation_id, event_type, payload, error_message, error_code, original_table, original_id, retry_count, max_retries, t) ==
    [workspace_id |-> workspace_id, operation_id |-> operation_id,
     original_table |-> original_table, original_id |-> original_id,
     event_type |-> event_type, payload |-> payload,
     error_message |-> error_message, error_code |-> error_code,
     retry_count |-> retry_count, max_retries |-> max_retries,
     created_at |-> t, last_attempt_at |-> t, next_retry_at |-> NullTime]

Returns(value) == [kind |-> "ok", value |-> value]
OverflowError == [kind |-> "OverflowError", value |-> 0]

Smaller(a, b) == IF a <= b THEN a ELSE b

\* m ** e as far as it matters below min(., top): the power itself while it is
\* at most top, and otherwise the first power above top
RECURSIVE Power(_, _, _, _)
Power(acc, m, e, top) ==
    IF e = 0 \/ acc > top THEN acc ELSE Power(acc * m, m, e - 1, top)

\* int(): the integer part of a non-negative product of hundredths
Truncate(product, scale) == product \div scale

\* ExponentialBackoff.calculate_delay(attempt) when random.uniform draws jitter
CalculateDelay(attempt, jitter) ==
    IF attempt <= 0 THEN Returns(0)
    ELSE IF attempt - 1 > FloatMaxExponent THEN OverflowError
    ELSE LET delay == Smaller(BaseDelayMinutes * Power(1, Multiplier, attempt - 1, MaxDelayMinutes),
                              MaxDelayMinutes)
             jittered == Truncate(delay * jitter, JitterScale)
         IN  Returns(IF jittered < 1 THEN 1 ELSE jittered)

\* ------------------------------------------------------------ steps
Other == [kind |-> "other"]
IdleCaller == [pc |-> "idle"]
IdleWorker == [pc |-> "idle"]
IdleHook == [pc |-> "idle", tx |-> NoRows]
IdleRetrier == [pc |-> "idle"]
IdlePipe == [pc |-> "idle"]
IdleMarker == [pc |-> "idle"]
IdleTurner == [pc |-> "idle"]
IdleRequest == [pc |-> "idle"]
NotCalled == [attempt |-> 0, jitter |-> 0, result |-> [kind |-> "", value |-> 0]]
NotAdded == [added |-> FALSE, retry_count |-> 0, calls |-> 0, failed |-> 0, succeeded |-> 0]

Init ==
    /\ jobs = NoRows
    /\ dlq = <<>>
    /\ now = 0
    /\ callers = [c \in Callers |-> IdleCaller]
    /\ workers = [w \in Workers |-> IdleWorker]
    /\ tx = [w \in Workers |-> NoRows]
    /\ claimedBy = [id \in JobIds |-> {}]
    /\ last = Other
    /\ events = NoRows
    /\ eventIds = 0
    /\ hooks = [h \in Hooks |-> IdleHook]
    /\ retriers = [r \in Retriers |-> IdleRetrier]
    /\ runs = [id \in EventIds |-> 0]
    /\ turns = {}
    /\ pipes = [p \in Pipes |-> IdlePipe]
    /\ effects = [op \in PipeOperationIds |-> 0]
    /\ backoff = NotCalled
    /\ markers = [m \in Markers |-> IdleMarker]
    /\ dlqGone = {}
    /\ marked = [id \in DlqIds |-> NotAdded]
    /\ messages = <<>>
    /\ audits = <<>>
    /\ msgIds = 0
    /\ reqs = [r \in Requests |-> IdleRequest]
    /\ turners = [u \in TurnCallers |-> IdleTurner]
    /\ processed_operations = [key \in {} |-> 0]
    /\ forwarded = [header \in DedupeHeaders |-> 0]

Inserting == {c \in Callers : callers[c].pc = "insert"}

Max(S) == CHOOSE x \in S : \A y \in S : y <= x

\* the database clock, which stamps created_at (server_default now(), the start
\* time of the inserting transaction), never runs backwards: it reads at
\* least every time it has handed out
DbClockFloor ==
    Max({0} \cup {jobs[id].created_at : id \in DOMAIN jobs}
            \cup {callers[c].t0 : c \in Inserting})

DbNow == {t \in Times : t >= DbClockFloor}

Done(a, r, created, seq) ==
    [kind |-> "done", args |-> a, result |-> r, created |-> created, seq |-> seq]

\* enqueue_job up to its first statement that another session can interleave
\* with: the dedupe read (lines 43-49), and with operation_id None the whole
\* call, since nothing is read before the insert (lines 51-65)
EnqueueBegin(c, a, t) ==
    /\ callers[c].pc = "idle"
    /\ t \in DbNow
    /\ LET found == EnqueueLookup(jobs, a) IN
       IF found.kind # "none"
       THEN /\ last' = Done(a, found, FALSE, TRUE)
            /\ UNCHANGED <<jobs, callers>>
       ELSE /\ Cardinality(DOMAIN jobs) + Cardinality(Inserting) < MaxJobs
            /\ IF a.operation_id = NoOp
               THEN /\ jobs' = InsertJob(jobs, a, t)
                    /\ last' = Done(a, Ok(NextId(jobs)), TRUE, TRUE)
                    /\ UNCHANGED callers
               ELSE /\ callers' = [callers EXCEPT ![c] =
                                      [pc |-> "insert", args |-> a, t0 |-> t]]
                    /\ last' = [kind |-> "check", caller |-> c]
                    /\ UNCHANGED jobs
    /\ UNCHANGED <<dlq, now, workers, tx, claimedBy, hookVars, pipeVars, dlqVars, httpVars>>

\* enqueue_job, lines 51-65: add the new job and commit; created_at is the
\* server's now(), the start time of the session's transaction
EnqueueInsert(c) ==
    /\ callers[c].pc = "insert"
    /\ LET a == callers[c].args IN
       /\ jobs' = InsertJob(jobs, a, callers[c].t0)
       /\ last' = Done(a, Ok(NextId(jobs)), TRUE, last = [kind |-> "check", caller |-> c])
    /\ callers' = [callers EXCEPT ![c] = IdleCaller]
    /\ UNCHANGED <<dlq, now, workers, tx, claimedBy, hookVars, pipeVars, dlqVars, httpVars>>

\* the loop of process_pending_jobs moves on to the next job, or to the commit
Advance(wk) ==
    IF wk.idx < Len(wk.batch)
    THEN [wk EXCEPT !.pc = "loop", !.idx = wk.idx + 1]
    ELSE [wk EXCEPT !.pc = "commit"]

\* process_pending_jobs, line 71: _get_pending_jobs; the ORM objects keep the
\* attempts they were loaded with
SelectPending(w, limit) ==
    /\ workers[w].pc = "idle"
    /\ \E b \in GetPendingJobs(jobs, limit) :
          workers' = [workers EXCEPT ![w] =
              [pc |-> IF b = <<>> THEN "commit" ELSE "loop",
               batch |-> b, attempts |-> [i \in DOMAIN b |-> jobs[b[i]].attempts],
               idx |-> 1, handled |-> <<>>, processed_count |-> 0, limit |-> limit]]
    /\ last' = Other
    /\ UNCHANGED <<jobs, dlq, now, callers, tx, claimedBy, hookVars, pipeVars, dlqVars, httpVars>>

\* one pass of the loop body, lines 75-109: _mark_job_started, _process_job,
\* then _mark_job_completed, or _mark_job_failed, job.attempts += 1 and, when
\* the attempts are used up, add_to_dlq, which commits the session
HandleJob(w) ==
    LET wk == workers[w]
        id == wk.batch[wk.idx]
        row == View(w)[id]
        started == [row EXCEPT !.status = "processing", !.started_at = now]
        attempts == wk.attempts[wk.idx] + 1
        failed == [started EXCEPT !.status = "failed", !.failed_at = now,
                                  !.error_message = UnknownJobType,
                                  !.attempts = attempts]
        seen == [wk EXCEPT !.handled = Append(wk.handled, id)]
    IN
    /\ wk.pc = "loop"
    /\ ~LockedByOther(w, id)
    /\ claimedBy' = [claimedBy EXCEPT ![id] = @ \cup {w}]
    /\ last' = Other
    /\ IF ~ProcessJobRaises(row.job_type)
       THEN /\ tx' = [tx EXCEPT ![w] = Write(w, id,
                        [started EXCEPT !.status = "completed", !.completed_at = now])]
            /\ workers' = [workers EXCEPT ![w] =
                   Advance([seen EXCEPT !.processed_count = @ + 1])]
            /\ UNCHANGED <<jobs, dlq>>
       ELSE IF AttemptsExhausted(attempts, row.max_attempts)
       THEN /\ dlq' = Append(dlq, DlqEntry(row.workspace_id, row.operation_id,
                         <<"job", row.job_type, "failed">>, row.payload,
                         <<"Job failed after attempts", attempts, UnknownJobType>>,
                         "JOB_PROCESSING_ERROR", "job_queue", id,
                         attempts, row.max_attempts, now))
            /\ jobs' = Committed(jobs, Write(w, id, failed))
            /\ tx' = [tx EXCEPT ![w] = NoRows]
            /\ workers' = [workers EXCEPT ![w] = [seen EXCEPT !.pc = "dlq_sent"]]
       ELSE /\ tx' = [tx EXCEPT ![w] = Write(w, id, failed)]
            /\ workers' = [workers EXCEPT ![w] = Advance(seen)]
            /\ UNCHANGED <<jobs, dlq>>
    /\ UNCHANGED <<now, callers, hookVars, pipeVars, dlqVars, httpVars>>

\* line 112: _mark_job_dlq_sent, in the transaction that add_to_dlq's commit left open
MarkJobDlqSent(w) ==
    LET wk == workers[w]
        id == wk.batch[wk.idx] IN
    /\ wk.pc = "dlq_sent"
    /\ ~LockedByOther(w, id)
    /\ tx' = [tx EXCEPT ![w] = Write(w, id, [View(w)[id] EXCEPT !.status = "dlq_sent"])]
    /\ workers' = [workers EXCEPT ![w] = Advance(wk)]
    /\ last' = Other
    /\ UNCHANGED <<jobs, dlq, now, callers, claimedBy, hookVars, pipeVars, dlqVars, httpVars>>

\* lines 119-120: commit and return processed_count
CommitBatch(w) ==
    /\ workers[w].pc = "commit"
    /\ jobs' = Committed(jobs, tx[w])
    /\ tx' = [tx EXCEPT ![w] = NoRows]
    /\ workers' = [workers EXCEPT ![w] = IdleWorker]
    /\ last' = Other
    /\ UNCHANGED <<dlq, now, callers, claimedBy, hookVars, pipeVars, dlqVars, httpVars>>

\* ------------------------------------------------------- webhook_events
\* the columns the code reads or writes (created_at is left to the server)
NewEvent(a) ==
    [workspace_id |-> a.workspace_id, operation_id |-> a.operation_id,
     event_type |-> a.event_type, external_id |-> a.external_id,
     payload |-> a.payload, status |-> "processing", attempts |-> 0,
     processed_at |-> NullTime]

Overlay(E, T) == [id \in DOMAIN E \cup DOMAIN T |-> IF id \in DOMAIN T THEN T[id] ELSE E[id]]

\* what the session of caller h reads
HookView(h) == Overlay(events, hooks[h].tx)

\* the rows _get_event_by_operation_id's statement matches
GetEventByOperationId(E, workspace_id, operation_id) ==
    {id \in DOMAIN E : /\ E[id].workspace_id = workspace_id
                       /\ E[id].operation_id = operation_id}

HandlerError == "handler raised"

MarkEventFailed_KeepsStatus(row) == [row EXCEPT !.attempts = row.attempts + 1]

\* _mark_event_processed and _mark_event_failed, lines 143-161
MarkEventProcessed(row, t) == [row EXCEPT !.status = "processed", !.processed_at = t]
MarkEventFailed(row) == [row EXCEPT !.status = "failed", !.attempts = row.attempts + 1]

\* f"webhook_{event_type}", line 76
WebhookJobType(event_type) == CASE event_type = "message" -> "webhook_message"

\* process_webhook_event, lines 43-49: the dedupe read; returns the existing event
ProcessWebhookBegin(h, a) ==
    /\ hooks[h].pc = "idle"
    /\ LET found == IF a.operation_id # NoOp
                    THEN ScalarOneOrNone(GetEventByOperationId(
                             HookView(h), a.workspace_id, a.operation_id))
                    ELSE NoneFound
       IN
       IF found.kind = "none"
       THEN /\ eventIds + Cardinality({g \in Hooks : hooks[g].pc = "create"}) < MaxEvents
            /\ hooks' = [hooks EXCEPT ![h] = [pc |-> "create", args |-> a, tx |-> NoRows]]
       ELSE hooks' = [hooks EXCEPT ![h] =
                [pc |-> IF found.kind = "ok" THEN "returned" ELSE "raised",
                 args |-> a, result |-> found, created |-> FALSE, tx |-> NoRows]]
    /\ last' = Other
    /\ UNCHANGED <<events, eventIds, retriers, runs, dlq, now, jobVars, pipeVars, dlqVars, httpVars>>

\* process_webhook_event, lines 51-86: add the event and flush, then the try
\* block: the event's processing, of which so far only _mark_event_processed
\* is written, and the return; or if it raises: add_to_dlq, which commits the
\* session, _mark_event_failed, and the exception goes to the caller
ProcessWebhookHandle(h, raises) ==
    LET a == hooks[h].args
        id == eventIds + 1
        row == NewEvent(a) IN
    /\ hooks[h].pc = "create"
    /\ eventIds' = id
    /\ runs' = [runs EXCEPT ![id] = @ + 1]
    /\ IF ~raises
       THEN /\ hooks' = [hooks EXCEPT ![h] =
                   [pc |-> "returned", args |-> a, result |-> Ok(id), created |-> TRUE,
                    tx |-> (id :> MarkEventProcessed(row, now))]]
            /\ UNCHANGED <<events, dlq>>
       ELSE /\ dlq' = Append(dlq, DlqEntry(a.workspace_id, a.operation_id,
                         WebhookJobType(a.event_type), a.payload, HandlerError,
                         "WEBHOOK_PROCESSING_ERROR", "webhook_events", id,
                         DefaultRetryCount, DefaultMaxRetries, now))
            /\ events' = Overlay(events, id :> row)
            /\ hooks' = [hooks EXCEPT ![h] =
                   [pc |-> "raised", args |-> a, result |-> [kind |-> HandlerError, id |-> id],
                    created |-> TRUE,
                    tx |-> (id :> MarkEventFailed(row))]]
    /\ last' = Other
    /\ UNCHANGED <<retriers, now, jobVars, pipeVars, dlqVars, httpVars>>

\* the caller's session ends (session.py, get_db_session): the caller, which
\* may have caught the exception, commits, or the session closes and what it
\* has not committed is rolled back
SessionEnd(h, commit) ==
    /\ hooks[h].pc \in {"returned", "raised"}
    /\ events' = IF commit THEN Overlay(events, hooks[h].tx) ELSE events
    /\ hooks' = [hooks EXCEPT ![h] = IdleHook]
    /\ last' = Other
    /\ UNCHANGED <<eventIds, retriers, runs, dlq, now, jobVars, pipeVars, dlqVars, httpVars>>

\* the events _get_failed_events_for_retry's statement matches
FailedEventsForRetry(E) ==
    {id \in DOMAIN E : E[id].status = "failed" /\ E[id].attempts < RetrySelectBelow}

\* the result lists a statement with LIMIT and no ORDER BY can return
AnyOrderLimit(S, limit) ==
    {b \in UNION {[1..n -> S] : n \in {Smaller(limit, Cardinality(S))}} :
        \A i, k \in DOMAIN b : i # k => b[i] # b[k]}

\* f"webhook_{event.event_type}_failed", line 111
WebhookFailedType(event_type) == CASE event_type = "message" -> "webhook_message_failed"

\* the UPDATE the flush issues for a changed ORM object: the changed columns only
Flush(row, obj) == [c \in DOMAIN row |-> IF c \in obj.dirty THEN obj.row[c] ELSE row[c]]

FlushAll(E, T) == [id \in DOMAIN E |-> IF id \in DOMAIN T THEN Flush(E[id], T[id]) ELSE E[id]]

Touch(T, id, obj) == [i \in DOMAIN T \cup {id} |-> IF i = id THEN obj ELSE T[i]]

\* the loop of retry_failed_events moves on to the next event, or to the commit
AdvanceRetry(rt) ==
    IF rt.idx < Len(rt.batch)
    THEN [rt EXCEPT !.idx = rt.idx + 1]
    ELSE [rt EXCEPT !.pc = "commit"]

\* retry_failed_events, line 92: _get_failed_events_for_retry loads the events
SelectFailedEvents(r, limit) ==
    /\ retriers[r].pc = "idle"
    /\ \E b \in AnyOrderLimit(FailedEventsForRetry(events), limit) :
          retriers' = [retriers EXCEPT ![r] =
              [pc |-> IF b = <<>> THEN "commit" ELSE "loop", batch |-> b,
               loaded |-> [i \in DOMAIN b |-> events[b[i]]], idx |-> 1,
               processed_count |-> 0, tx |-> NoRows]]
    /\ last' = Other
    /\ UNCHANGED <<events, eventIds, hooks, runs, dlq, now, jobVars, pipeVars, dlqVars, httpVars>>

\* one pass of the loop body, lines 97-127: _process_event_retry marks the
\* loaded event processed, or it raises: event.attempts += 1 and, at the
\* ceiling, add_to_dlq, which commits the session, and then status dlq_sent
RetryEvent(r, raises) ==
    LET rt == retriers[r]
        id == rt.batch[rt.idx]
        event == rt.loaded[rt.idx]
        attempts == event.attempts + 1
    IN
    /\ rt.pc = "loop"
    /\ runs' = [runs EXCEPT ![id] = @ + 1]
    /\ last' = Other
    /\ IF ~raises
       THEN /\ retriers' = [retriers EXCEPT ![r] = AdvanceRetry(
                   [rt EXCEPT !.processed_count = @ + 1,
                              !.tx = Touch(rt.tx, id,
                                  [dirty |-> {"status", "processed_at"},
                                   row |-> MarkEventProcessed(event, now)])])]
            /\ UNCHANGED <<events, dlq>>
       ELSE IF attempts >= RetryCeiling
       THEN /\ dlq' = Append(dlq, DlqEntry(event.workspace_id, event.operation_id,
                         WebhookFailedType(event.event_type), event.payload,
                         HandlerError, "WEBHOOK_RETRY_EXHAUSTED", "webhook_events", id,
                         attempts, RetryCeiling, now))
            /\ events' = FlushAll(events, Touch(rt.tx, id,
                             [dirty |-> {"attempts"},
                              row |-> [event EXCEPT !.attempts = attempts]]))
            /\ retriers' = [retriers EXCEPT ![r] = AdvanceRetry(
                   [rt EXCEPT !.tx = id :> [dirty |-> {"status"},
                                            row |-> [event EXCEPT !.attempts = attempts,
                                                                  !.status = "dlq_sent"]]])]
       ELSE /\ retriers' = [retriers EXCEPT ![r] = AdvanceRetry(
                   [rt EXCEPT !.tx = Touch(rt.tx, id,
                                  [dirty |-> {"attempts"},
                                   row |-> [event EXCEPT !.attempts = attempts]])])]
            /\ UNCHANGED <<events, dlq>>
    /\ UNCHANGED <<eventIds, hooks, now, jobVars, pipeVars, dlqVars, httpVars>>

\* lines 129-130: commit and return processed_count
RetryCommit(r) ==
    /\ retriers[r].pc = "commit"
    /\ events' = FlushAll(events, retriers[r].tx)
    /\ retriers' = [retriers EXCEPT ![r] = IdleRetrier]
    /\ last' = Other
    /\ UNCHANGED <<eventIds, hooks, runs, dlq, now, jobVars, pipeVars, dlqVars, httpVars>>

\* callers process webhook events concurrently, each in its own session
WebhookNext ==
    \/ \E h \in Hooks, a \in HookArgs : ProcessWebhookBegin(h, a)
    \/ \E h \in Hooks, raises \in BOOLEAN : ProcessWebhookHandle(h, raises)
    \/ \E h \in Hooks, commit \in BOOLEAN : SessionEnd(h, commit)

WebhookSpec == Init /\ [][WebhookNext]_vars

\* events of one key arrive and fail while two callers run retry_failed_events
RetryArgs == {a \in HookArgs : /\ a.workspace_id = "T1" /\ a.operation_id = NoOp
                               /\ a.payload = "p"}

RetryNext ==
    \/ \E a \in RetryArgs : ProcessWebhookBegin("h1", a)
    \/ \E raises \in BOOLEAN : ProcessWebhookHandle("h1", raises)
    \/ \E commit \in BOOLEAN : SessionEnd("h1", commit)
    \/ \E r \in Retriers, limit \in Limits : SelectFailedEvents(r, limit)
    \/ \E r \in Retriers, raises \in BOOLEAN : RetryEvent(r, raises)
    \/ \E r \in Retriers : RetryCommit(r)

RetrySpec == Init /\ [][RetryNext]_vars

\* ------------------------------------------------------------ retry_utils
\* uuid.UUID(operation_id): the UUID, or the exception
ParseUuid(op) ==
    IF op.type = "NoneType" THEN [kind |-> "TypeError", uuid |-> NoOp]
    ELSE IF op.type = "UUID" THEN [kind |-> "AttributeError", uuid |-> NoOp]
    ELSE IF op.text \in UuidTexts THEN [kind |-> "ok", uuid |-> op.text]
    ELSE IF \E text \in UuidTexts : op.text = UrnSpelling(text)
         THEN [kind |-> "ok", uuid |-> CHOOSE text \in UuidTexts : op.text = UrnSpelling(text)]
    ELSE [kind |-> "ValueError", uuid |-> NoOp]

\* is_operation_processed: "true", "false", or the exception that leaves it
IsOperationProcessed(op) ==
    LET parsed == ParseUuid(op)
        processed == ScalarOneOrNone({id \in DOMAIN events :
                         /\ events[id].operation_id = parsed.uuid
                         /\ events[id].status = "processed"})
        completed == ScalarOneOrNone({id \in DOMAIN jobs :
                         /\ jobs[id].operation_id = parsed.uuid
                         /\ jobs[id].status = "completed"})
    IN
    IF op.type = "str" /\ op.text \in turns THEN "true"
    ELSE IF parsed.kind = "ValueError" THEN "false"
    ELSE IF parsed.kind # "ok" THEN parsed.kind
    ELSE IF processed.kind = "ok" THEN "true"
    ELSE IF processed.kind # "none" THEN processed.kind
    ELSE IF completed.kind = "ok" THEN "true"
    ELSE IF completed.kind # "none" THEN completed.kind
    ELSE "false"

\* create_llm_turn (llm_turns.py), run start to end: the row is added unless
\* one with the operation_id exists
CreateLlmTurn(text) ==
    /\ turns' = turns \cup {text}
    /\ last' = Other
    /\ UNCHANGED <<pipes, effects, dlq, now, jobVars, hookVars, dlqVars, httpVars>>

\* a caller inside retry_async, and a caller that is through
Running(item, retries, direct) ==
    [pc |-> "retry", item |-> item, retries |-> retries, direct |-> direct,
     attempt |-> 0, calls |-> 0, outcome |-> "", error |-> 0]

Finished(pp, outcome, error) ==
    [pp EXCEPT !.pc = "done", !.outcome = outcome, !.error = error]

AfterLedger_RunsHandler(item, hit) == Running(item, DefaultRetries, FALSE)

\* process_job / process_webhook_event, lines 71-72 and 83-84: a hit returns,
\* an exception of the ledger leaves the call, a miss goes on to retry_async
AfterLedger(item, hit) ==
    IF hit = "false" THEN Running(item, DefaultRetries, FALSE)
    ELSE Finished(Running(item, DefaultRetries, FALSE),
                  IF hit = "true" THEN "skipped" ELSE hit, 0)

\* process_job / process_webhook_event up to the ledger's answer
PipeBegin(p, item) ==
    /\ pipes[p].pc = "idle"
    /\ pipes' = [pipes EXCEPT ![p] =
                    AfterLedger(item, IsOperationProcessed(item.operation_id))]
    /\ last' = Other
    /\ UNCHANGED <<turns, effects, dlq, now, jobVars, hookVars, dlqVars, httpVars>>

\* retry_async(func, retries) called on its own; range(0) runs nothing and
\* the call returns None
RetryAsync(p, item, retries) ==
    /\ pipes[p].pc = "idle"
    /\ pipes' = [pipes EXCEPT ![p] =
                    IF retries = 0
                    THEN Finished(Running(item, retries, TRUE), "None", 0)
                    ELSE Running(item, retries, TRUE)]
    /\ last' = Other
    /\ UNCHANGED <<turns, effects, dlq, now, jobVars, hookVars, dlqVars, httpVars>>

LastAttempt_Never(attempt, retries) == FALSE

\* line 28: the failure of the last pass is raised
LastAttempt(attempt, retries) == attempt = retries - 1

\* one pass of retry_async's loop, lines 24-31, around the handler: the
\* handler applies its side effect and returns, or raises before it has
\* changed anything; the exception of a pass carries the number of the
\* invocation. The last failure is raised: to the caller of retry_async, or
\* in the pipeline it is caught (lines 76-78, 88-89) and handed to add_to_dlq,
\* which is a stub. A loop that runs out returns None
PipeAttempt(p, raises) ==
    LET pp == pipes[p]
        text == pp.item.operation_id.text
        called == [pp EXCEPT !.calls = @ + 1] IN
    /\ pp.pc = "retry"
    /\ IF ~raises
       THEN /\ effects' = [effects EXCEPT ![text] = @ + 1]
            /\ pipes' = [pipes EXCEPT ![p] = Finished(called, "ok", 0)]
       ELSE /\ pipes' = [pipes EXCEPT ![p] =
                   IF LastAttempt(pp.attempt, pp.retries)
                   THEN Finished(called, IF pp.direct THEN "raised" ELSE "add_to_dlq",
                                 called.calls)
                   ELSE IF pp.attempt + 1 >= pp.retries
                   THEN Finished(called, "None", 0)
                   ELSE [called EXCEPT !.attempt = @ + 1]]
            /\ UNCHANGED effects
    /\ last' = Other
    /\ UNCHANGED <<turns, dlq, now, jobVars, hookVars, dlqVars, httpVars>>

\* two callers run the pipeline, each once, while jobs are enqueued and completed
PipelineNext ==
    \/ \E p \in Pipes, item \in RaceItems : PipeBegin(p, item)
    \/ \E p \in Pipes, raises \in BOOLEAN : PipeAttempt(p, raises)
    \/ \E a \in LedgerArgs : EnqueueBegin("c1", a, 0)
    \/ EnqueueInsert("c1")
    \/ \E limit \in Limits : SelectPending("k1", limit)
    \/ HandleJob("k1")
    \/ CommitBatch("k1")

PipelineSpec == Init /\ [][PipelineNext]_vars

\* events of every workspace that carry an operation id
LedgerHookArgs == {a \in HookArgs : a.operation_id # NoOp /\ a.payload = "p"}

\* the operation ids create_llm_turn is called with: a UUID, and no UUID
TurnOperationIds == UuidTexts \cup {"not-a-uuid"}

\* one caller runs the pipeline once while webhook events and llm turns of both
\* workspaces are recorded
LedgerNext ==
    \/ \E item \in PipeItems : PipeBegin("p1", item)
    \/ \E raises \in BOOLEAN : PipeAttempt("p1", raises)
    \/ \E text \in TurnOperationIds : CreateLlmTurn(text)
    \/ \E a \in LedgerHookArgs : ProcessWebhookBegin("h1", a)
    \/ \E raises \in BOOLEAN : ProcessWebhookHandle("h1", raises)
    \/ \E commit \in BOOLEAN : SessionEnd("h1", commit)

LedgerSpec == Init /\ [][LedgerNext]_vars

\* callers call retry_async on its own
RetryAsyncNext ==
    \/ \E p \in Pipes, item \in RaceItems, retries \in RetriesArgs : RetryAsync(p, item, retries)
    \/ \E p \in Pipes, raises \in BOOLEAN : PipeAttempt(p, raises)

RetryAsyncSpec == Init /\ [][RetryAsyncNext]_vars

\* two workers poll the queue while one caller enqueues
Next ==
    \/ \E a \in QueueArgs : EnqueueBegin("c1", a, 0)
    \/ \E w \in Workers, limit \in Limits : SelectPending(w, limit)
    \/ \E w \in Workers : HandleJob(w)
    \/ \E w \in Workers : MarkJobDlqSent(w)
    \/ \E w \in Workers : CommitBatch(w)

Spec == Init /\ [][Next]_vars

\* two callers enqueue concurrently while one worker polls the queue
EnqueueNext ==
    \/ \E c \in Callers, a \in DedupeArgs : EnqueueBegin(c, a, 0)
    \/ \E c \in Callers : EnqueueInsert(c)
    \/ \E limit \in Limits : SelectPending("k1", limit)
    \/ HandleJob("k1")
    \/ MarkJobDlqSent("k1")
    \/ CommitBatch("k1")

EnqueueSpec == Init /\ [][EnqueueNext]_vars

\* jobs of two priorities arrive at different times while two workers poll
OrderNext ==
    \/ \E a \in OrderArgs, t \in Times : EnqueueBegin("c1", a, t)
    \/ \E w \in Workers, limit \in Limits : SelectPending(w, limit)
    \/ \E w \in Workers : HandleJob(w)
    \/ \E w \in Workers : CommitBatch(w)

OrderSpec == Init /\ [][OrderNext]_vars

\* the polling driver keeps calling process_pending_jobs on every worker
WorkerStep(w) ==
    \/ \E limit \in Limits : SelectPending(w, limit)
    \/ HandleJob(w)
    \/ MarkJobDlqSent(w)
    \/ CommitBatch(w)

FairSpec == Spec /\ \A w \in Workers : WF_vars(WorkerStep(w))

\* a completed row that no worker holds in its batch or its transaction: no
\* statement of process_pending_jobs reads it again, and enqueue_job does not
\* either, since the row has no operation id
Settled(id) ==
    /\ jobs[id].status = "completed" /\ jobs[id].operation_id = NoOp
    /\ \A w \in Workers :
          /\ id \notin DOMAIN tx[w]
          /\ workers[w].pc # "idle" => \A i \in DOMAIN workers[w].batch : workers[w].batch[i] # id

\* enqueue_job without an operation id, called without end: the table is kept
\* up to its settled rows, so that once MaxJobs rows exist the new row is
\* shown in the place of a settled one
EnqueueForever(a, t) ==
    /\ a.operation_id = NoOp
    /\ t \in DbNow
    /\ IF Cardinality(DOMAIN jobs) < MaxJobs
       THEN /\ jobs' = InsertJob(jobs, a, t)
            /\ last' = Done(a, Ok(NextId(jobs)), TRUE, TRUE)
            /\ UNCHANGED claimedBy
       ELSE \E id \in {i \in DOMAIN jobs : Settled(i)} :
               /\ jobs' = [jobs EXCEPT ![id] = NewJob(a, t)]
               /\ claimedBy' = [claimedBy EXCEPT ![id] = {}]
               /\ last' = Done(a, Ok(id), TRUE, TRUE)
    /\ UNCHANGED <<dlq, now, callers, workers, tx, hookVars, pipeVars, dlqVars, httpVars>>

\* jobs of two priorities keep arriving while the driver keeps calling
\* process_pending_jobs on one worker
StarveNext ==
    \/ \E a \in OrderArgs, t \in Times : EnqueueForever(a, t)
    \/ \E limit \in Limits : SelectPending("k1", limit)
    \/ HandleJob("k1")
    \/ CommitBatch("k1")

StarveSpec == Init /\ [][StarveNext]_vars /\ WF_vars(WorkerStep("k1"))

\* ------------------------------------------------------------------ dlq
\* the rows of dead_letter_queue that exist
Stored == (1..Len(dlq)) \ dlqGone

\* DLQService.add_to_dlq called directly: the row is added and committed
AddToDlq(a) ==
    /\ Len(dlq) < MaxDlq
    /\ dlq' = Append(dlq, DlqEntry("T1", NoOp, "message", "p", "e0", NullText,
                                   "webhook_events", 0, a.retry_count, a.max_retries, now))
    /\ marked' = [marked EXCEPT ![Len(dlq) + 1] =
                      [NotAdded EXCEPT !.added = TRUE, !.retry_count = a.retry_count]]
    /\ last' = [kind |-> "add_to_dlq", id |-> Len(dlq) + 1]
    /\ UNCHANGED <<now, backoff, markers, dlqGone, jobVars, hookVars, pipeVars, httpVars>>

\* the rows get_pending_retry's statement matches at time t
PendingRetry(D, gone, t) ==
    {id \in (1..Len(D)) \ gone :
        /\ D[id].retry_count < D[id].max_retries
        /\ D[id].next_retry_at = NullTime \/ D[id].next_retry_at <= t}

\* get_pending_retry(limit): LIMIT without ORDER BY
GetPendingRetry(limit) ==
    /\ \E b \in AnyOrderLimit(PendingRetry(dlq, dlqGone, now), limit) :
          last' = [kind |-> "get_pending_retry", result |-> b, short |-> Len(b) < limit]
    /\ UNCHANGED <<dlq, now, dlqVars, jobVars, hookVars, pipeVars, httpVars>>

\* mark_retry_attempt, up to the await of the select: the row is loaded, or
\* there is none and the call returns
MarkRetryAttemptBegin(m, via, id, success, error_message, delay) ==
    /\ markers[m].pc = "idle"
    /\ marked[id].calls < MaxMarks
    /\ IF id \in Stored
       THEN /\ markers' = [markers EXCEPT ![m] =
                   [pc |-> "loaded", via |-> via, id |-> id, row |-> dlq[id],
                    success |-> success, error_message |-> error_message, delay |-> delay]]
            /\ marked' = [marked EXCEPT ![id].calls = @ + 1]
            /\ last' = Other
       ELSE /\ last' = [kind |-> "mark_retry_attempt", id |-> id, outcome |-> "not found"]
            /\ UNCHANGED <<markers, marked>>
    /\ UNCHANGED <<dlq, now, backoff, dlqGone, jobVars, hookVars, pipeVars, httpVars>>

SessionDelete_KeepsRow(gone, id) == gone

\* session.delete(dlq_entry), flushed by the commit: the row is gone
SessionDelete(gone, id) == gone \cup {id}

\* the columns of the loaded row that the call assigned another value
Dirty(loaded, row) == {c \in DOMAIN loaded : row[c] # loaded[c]}

\* mark_retry_attempt, from line 137 to the commit: retry_count += 1 on the
\* loaded row, then the row is deleted, or its next retry is scheduled while
\* retry_count < max_retries; the commit flushes the DELETE, or the UPDATE of
\* the changed columns, which raises StaleDataError when the row is gone
MarkRetryAttemptEnd(m, jitter) ==
    LET mk == markers[m]
        id == mk.id
        entry == mk.row
        retry_count == entry.retry_count + 1
        schedules == ~mk.success /\ retry_count < entry.max_retries
        delay == IF mk.delay # NoDelay THEN Returns(mk.delay)
                 ELSE IF mk.via = "DLQRepository" THEN Returns(RepositoryDelay)
                 ELSE CalculateDelay(retry_count, jitter)
        row == [entry EXCEPT
                   !.retry_count = retry_count,
                   !.last_attempt_at = now,
                   !.next_retry_at = IF schedules THEN now + delay.value ELSE @,
                   !.error_message = IF schedules /\ mk.error_message # NullText
                                     THEN mk.error_message ELSE @]
        outcome == IF schedules /\ delay.kind # "ok" THEN delay.kind
                   ELSE IF ~mk.success /\ id \in dlqGone THEN "StaleDataError"
                   ELSE "ok"
    IN
    /\ mk.pc = "loaded"
    /\ markers' = [markers EXCEPT ![m] = IdleMarker]
    /\ IF outcome # "ok" THEN UNCHANGED <<dlq, dlqGone>>
       ELSE IF mk.success THEN dlqGone' = SessionDelete(dlqGone, id) /\ dlq' = dlq
       ELSE /\ dlq' = [dlq EXCEPT ![id] =
                          Flush(dlq[id], [row |-> row, dirty |-> Dirty(entry, row)])]
            /\ dlqGone' = dlqGone
    /\ marked' = [marked EXCEPT ![id].failed = IF mk.success THEN @ ELSE @ + 1,
                                ![id].succeeded = IF mk.success THEN @ + 1 ELSE @]
    /\ last' = [kind |-> "mark_retry_attempt", id |-> id, outcome |-> outcome]
    /\ UNCHANGED <<now, backoff, jobVars, hookVars, pipeVars, httpVars>>

\* time passes
Tick ==
    /\ now < MaxNow
    /\ now' = now + 1
    /\ last' = Other
    /\ UNCHANGED <<dlq, dlqVars, jobVars, hookVars, pipeVars, httpVars>>

\* the error_message argument of mark_retry_attempt
ErrorArgs == {NullText, "e1"}

\* one caller adds entries, asks for the pending ones and marks retries, each
\* failed retry with an error message
DlqNext ==
    \/ \E a \in DlqAddArgs : AddToDlq(a)
    \/ \E limit \in Limits : GetPendingRetry(limit)
    \/ \E c \in MarkCalls, id \in DlqIds, success \in BOOLEAN :
          MarkRetryAttemptBegin("m1", c.via, id, success, "e1", c.delay)
    \/ \E jitter \in DlqJitters : MarkRetryAttemptEnd("m1", jitter)
    \/ Tick

DlqSpec == Init /\ [][DlqNext]_vars

\* two callers mark retries at the same time
DlqRaceNext ==
    \/ \E a \in DlqAddArgs : AddToDlq(a)
    \/ \E limit \in Limits : GetPendingRetry(limit)
    \/ \E m \in Markers, c \in MarkCalls, id \in DlqIds, success \in BOOLEAN,
          error_message \in ErrorArgs :
              MarkRetryAttemptBegin(m, c.via, id, success, error_message, c.delay)
    \/ \E m \in Markers, jitter \in DlqJitters : MarkRetryAttemptEnd(m, jitter)
    \/ Tick

DlqRaceSpec == Init /\ [][DlqRaceNext]_vars

\* a call of calculate_delay on its own
CalculateDelayCall(attempt, jitter) ==
    /\ backoff' = [attempt |-> attempt, jitter |-> jitter,
                   result |-> CalculateDelay(attempt, jitter)]
    /\ last' = Other
    /\ UNCHANGED <<dlq, now, markers, dlqGone, marked, jobVars, hookVars, pipeVars, httpVars>>

BackoffNext == \E attempt \in BackoffAttempts, jitter \in Jitters : CalculateDelayCall(attempt, jitter)

BackoffSpec == Init /\ [][BackoffNext]_vars

\* ------------------------------------------------------------ llm_turns
\* create_llm_turn, lines 14-19: the row with the operation_id is read and,
\* when there is one, returned
CreateLlmTurnBegin(u, text) ==
    /\ turners[u].pc \in {"idle", "done"}
    /\ turners' = [turners EXCEPT ![u] =
           IF text \in turns
           THEN [pc |-> "done", operation_id |-> text, outcome |-> "existing"]
           ELSE [pc |-> "insert", operation_id |-> text, outcome |-> ""]]
    /\ last' = Other
    /\ UNCHANGED <<turns, pipes, effects, dlq, now, jobVars, hookVars, dlqVars,
                   messages, audits, msgIds, reqs, processed_operations, forwarded>>

\* create_llm_turn, lines 21-24: the new row is added and committed; the
\* unique index on operation_id makes the INSERT of a second row fail
CreateLlmTurnCommit(u) ==
    LET text == turners[u].operation_id IN
    /\ turners[u].pc = "insert"
    /\ IF text \in turns
       THEN /\ turners' = [turners EXCEPT ![u] = [@ EXCEPT !.pc = "done",
                                                            !.outcome = "IntegrityError"]]
            /\ turns' = turns
       ELSE /\ turners' = [turners EXCEPT ![u] = [@ EXCEPT !.pc = "done",
                                                            !.outcome = "created"]]
            /\ turns' = turns \cup {text}
    /\ last' = Other
    /\ UNCHANGED <<pipes, effects, dlq, now, jobVars, hookVars, dlqVars,
                   messages, audits, msgIds, reqs, processed_operations, forwarded>>

\* the operation ids of the create_llm_turn calls
LlmTurnOperationIds == TurnOperationIds \cup {"O2"}

\* two callers call create_llm_turn, again and again
LlmTurnNext ==
    \/ \E u \in TurnCallers, text \in LlmTurnOperationIds : CreateLlmTurnBegin(u, text)
    \/ \E u \in TurnCallers : CreateLlmTurnCommit(u)

LlmTurnSpec == Init /\ [][LlmTurnNext]_vars

\* ----------------------------------------------------------------- turn
\* uuid.UUID(x_operation_id), lines 163-174: None without a header, the UUID
\* whatever its spelling, or HTTP 400
ParseOperationId(header) ==
    IF header = NoOp THEN Returns(NoOp)
    ELSE IF header \in UuidTexts THEN Returns(header)
    ELSE IF \E text \in UuidTexts : header = UrnSpelling(text)
    THEN Returns(CHOOSE text \in UuidTexts : header = UrnSpelling(text))
    ELSE [kind |-> "HTTPException", value |-> NoOp]

\* f"Эхо: {body.content}"
Echo(content) == CASE content = "a" -> "echo a" [] content = "b" -> "echo b"

NewMessage(id, a, operation_id, role, content) ==
    [id |-> id, workspace_id |-> a.workspace_id, thread_id |-> a.thread_id, role |-> role,
     content |-> content, operation_id |-> operation_id]

FindMessage_None(M, workspace_id, thread_id, operation_id, role) == {}

\* the rows the selects of lines 181-188, 194-201, 264-271 and 276-283 match
FindMessage(M, workspace_id, thread_id, operation_id, role) ==
    {i \in DOMAIN M : /\ M[i].workspace_id = workspace_id /\ M[i].thread_id = thread_id
                      /\ M[i].operation_id = operation_id /\ M[i].role = role}

UniqueViolation_Never(M, row) == FALSE

\* ux_messages_workspace_thread_operation_role: the INSERT of row fails when a
\* row with its workspace, thread, operation and role exists; rows with a NULL
\* operation_id never collide
UniqueViolation(M, row) ==
    /\ row.operation_id # NoOp
    /\ FindMessage(M, row.workspace_id, row.thread_id, row.operation_id, row.role) # {}

\* _to_msg: the part of a row that the response carries
ToMsg(row) == [id |-> row.id, content |-> row.content]
NoMsg == [id |-> 0, content |-> ""]

Responded(rq, status, path, user, assistant) ==
    [pc |-> "done", args |-> rq.args, seen |-> rq.seen, status |-> status, path |-> path,
     user_message |-> user, assistant_message |-> assistant]

\* turn requests that are going to insert
Committing == {r \in Requests : reqs[r].pc = "commit"}

\* turn, lines 160-190: the thread is looked up, the header parsed and, with
\* an operation id, the assistant message of the operation looked for
TurnBegin(r, a) ==
    LET parsed == ParseOperationId(a.x_operation_id)
        rq == [pc |-> "", args |-> a, seen |-> Len(messages)]
        existing == FindMessage(messages, a.workspace_id, a.thread_id, parsed.value,
                                "assistant")
    IN
    /\ reqs[r].pc \in {"idle", "done"}
    /\ IF a.workspace_id # ThreadWorkspace
       THEN reqs' = [reqs EXCEPT ![r] = Responded(rq, 404, "THREAD_NOT_FOUND", NoMsg, NoMsg)]
       ELSE IF parsed.kind # "ok"
       THEN reqs' = [reqs EXCEPT ![r] =
                        Responded(rq, 400, "INVALID_OPERATION_ID", NoMsg, NoMsg)]
       ELSE IF parsed.value # NoOp /\ existing # {}
       THEN \E i \in existing :
               reqs' = [reqs EXCEPT ![r] =
                           [rq EXCEPT !.pc = "dedupe"] @@
                           [operation_id |-> parsed.value, existing |-> messages[i]]]
       ELSE /\ Len(messages) + 2 * (Cardinality(Committing) + 1) <= 2 * MaxTurns
            /\ reqs' = [reqs EXCEPT ![r] =
                           [rq EXCEPT !.pc = "commit"] @@ [operation_id |-> parsed.value]]
    /\ last' = Other
    /\ UNCHANGED <<dlq, now, jobVars, hookVars, pipeVars, dlqVars,
                   messages, audits, msgIds, turners, processed_operations, forwarded>>

\* turn, lines 192-219: the user message of the operation is read and both
\* are returned; a user message that is not there is made up without an id,
\* which the response model rejects
TurnDedupe(r) ==
    LET rq == reqs[r]
        a == rq.args
        user_existing == FindMessage(messages, a.workspace_id, a.thread_id,
                                     rq.operation_id, "user")
    IN
    /\ rq.pc = "dedupe"
    /\ IF user_existing = {}
       THEN reqs' = [reqs EXCEPT ![r] =
                        Responded(rq, 500, "ValidationError", NoMsg, ToMsg(rq.existing))]
       ELSE \E i \in user_existing :
               reqs' = [reqs EXCEPT ![r] =
                           Responded(rq, 200, "dedupe", ToMsg(messages[i]),
                                     ToMsg(rq.existing))]
    /\ last' = Other
    /\ UNCHANGED <<dlq, now, jobVars, hookVars, pipeVars, dlqVars,
                   messages, audits, msgIds, turners, processed_operations, forwarded>>

\* turn, lines 221-261 and 292-298: both messages and the audit row are
\* inserted by one commit and returned; when the unique index rejects them
\* the session is rolled back and, with an operation id, the rows are re-read
TurnCommit(r) ==
    LET rq == reqs[r]
        a == rq.args
        user_msg == NewMessage(msgIds + 1, a, rq.operation_id, "user", a.content)
        assistant_msg == NewMessage(msgIds + 2, a, rq.operation_id, "assistant",
                                    Echo(a.content))
        \* uuid4 ids: fresh, and kept only when the rows are
    IN
    /\ rq.pc = "commit"
    /\ IF UniqueViolation(messages, user_msg) \/ UniqueViolation(messages, assistant_msg)
       THEN /\ reqs' = [reqs EXCEPT ![r] = [rq EXCEPT !.pc = "reread"]]
            /\ UNCHANGED <<messages, audits, msgIds>>
       ELSE /\ messages' = messages \o <<user_msg, assistant_msg>>
            /\ msgIds' = msgIds + 2
            /\ audits' = Append(audits, [workspace_id |-> a.workspace_id,
                                         operation_id |-> rq.operation_id,
                                         action |-> "TURN_EXECUTED",
                                         resource_id |-> a.thread_id])
            /\ reqs' = [reqs EXCEPT ![r] =
                   Responded(rq, 200, "created", ToMsg(user_msg), ToMsg(assistant_msg))]
    /\ last' = Other
    /\ UNCHANGED <<dlq, now, jobVars, hookVars, pipeVars, dlqVars,
                   turners, processed_operations, forwarded>>

\* turn, lines 262-290: after the rollback both messages of the operation are
\* read with scalar_one(), which raises NoResultFound when there is none
TurnReread(r) ==
    LET rq == reqs[r]
        a == rq.args
        existing == FindMessage(messages, a.workspace_id, a.thread_id,
                                rq.operation_id, "assistant")
        user_existing == FindMessage(messages, a.workspace_id, a.thread_id,
                                     rq.operation_id, "user")
    IN
    /\ rq.pc = "reread"
    /\ IF existing = {} \/ user_existing = {}
       THEN reqs' = [reqs EXCEPT ![r] = Responded(rq, 500, "NoResultFound", NoMsg, NoMsg)]
       ELSE \E i \in user_existing, k \in existing :
               reqs' = [reqs EXCEPT ![r] =
                           Responded(rq, 200, "race", ToMsg(messages[i]),
                                     ToMsg(messages[k]))]
    /\ last' = Other
    /\ UNCHANGED <<dlq, now, jobVars, hookVars, pipeVars, dlqVars,
                   messages, audits, msgIds, turners, processed_operations, forwarded>>

\* two clients send turn requests, again and again
TurnNext ==
    \/ \E r \in Requests, a \in TurnArgs : TurnBegin(r, a)
    \/ \E r \in Requests : TurnDedupe(r)
    \/ \E r \in Requests : TurnCommit(r)
    \/ \E r \in Requests : TurnReread(r)

TurnSpec == Init /\ [][TurnNext]_vars

\* --------------------------------------------------------------- dedupe
\* DedupeMiddleware's default ttl_seconds
TtlSeconds == 300

\* request.state.operation_id as dispatch finds it: create_app installs
\* DedupeMiddleware, TenantMiddleware and CORSMiddleware, none of which sets
\* it, so getattr(request.state, "operation_id", None) is None whatever the
\* X-Operation-Id header of the request is
RequestStateOperationId(header) == NoOp

\* hasattr(request.app.state.settings, "current_time"): Settings declares
\* app_env and database_url only
HasCurrentTime == FALSE

\* lines 40-44: settings.current_time(), or None
CurrentTimeOrNone(t) == IF HasCurrentTime THEN t ELSE NullTime

\* lines 61-65: settings.current_time(), or 0
CurrentTimeOrZero(t) == IF HasCurrentTime THEN t ELSE 0

\* a time that "if current_time and ..." lets pass: neither None nor 0
Truthy(t) == t # NullTime /\ t # 0

\* _cleanup_old_operations: current_time = 0, the keys stamped before
\* current_time - ttl_seconds are removed
CleanupOldOperations(P) ==
    LET cutoff_time == 0 - TtlSeconds IN
    [key \in {k \in DOMAIN P : ~(P[k] < cutoff_time)} |-> P[key]]

\* lines 60-65: the operation is stamped
Stamp(P, key, t) == [k \in DOMAIN P \cup {key} |-> IF k = key THEN t ELSE P[k]]

\* DedupeMiddleware.dispatch for a request with the given X-Operation-Id
\* header: answered by the middleware, or stamped and passed to call_next
Dispatch(header) ==
    LET operation_id == RequestStateOperationId(header)
        current_time == CurrentTimeOrNone(now)
        answers == /\ operation_id # NoOp
                   /\ operation_id \in DOMAIN processed_operations
                   /\ Truthy(current_time)
                   /\ current_time - processed_operations[operation_id] < TtlSeconds
    IN
    /\ forwarded[header] < MaxDispatch
    /\ IF answers
       THEN /\ last' = [kind |-> "dispatch", header |-> header, status |-> 200,
                        code |-> "OPERATION_ALREADY_PROCESSED"]
            /\ UNCHANGED <<processed_operations, forwarded>>
       ELSE /\ processed_operations' =
                   IF operation_id # NoOp
                   THEN CleanupOldOperations(Stamp(processed_operations, operation_id,
                                                   CurrentTimeOrZero(now)))
                   ELSE processed_operations
            /\ forwarded' = [forwarded EXCEPT ![header] = @ + 1]
            /\ last' = [kind |-> "dispatch", header |-> header, status |-> 200,
                        code |-> "call_next"]
    /\ UNCHANGED <<dlq, now, jobVars, hookVars, pipeVars, dlqVars,
                   messages, audits, msgIds, reqs, turners>>

\* requests arrive at the application while time passes
DedupeNext ==
    \/ \E header \in DedupeHeaders : Dispatch(header)
    \/ Tick

DedupeSpec == Init /\ [][DedupeNext]_vars

\* ------------------------------------------------------------ claims
Range(f) == {f[i] : i \in DOMAIN f}

KeyRows(J, workspace_id, operation_id) ==
    {id \in DOMAIN J : J[id].workspace_id = workspace_id /\ J[id].operation_id = operation_id}

\* C1: for every workspace and non-null operation_id at most one job_queue row
\* of that key is pending, processing or completed
C1_OneActiveJobPerOperation ==
    \A ws \in Workspaces, op \in OperationIds \ {NoOp} :
        Cardinality({id \in KeyRows(jobs, ws, op) :
                        jobs[id].status \in {"pending", "processing", "completed"}}) <= 1

\* C2: no job is claimed (pending -> processing, then handled) by two workers
C2_ClaimedByOneWorker ==
    \A id \in JobIds : Cardinality(claimedBy[id]) <= 1

\* a call of enqueue_job with a non-null operation_id has just run from start
\* to end with no other step in between
JustEnqueued ==
    last.kind = "done" /\ last.seq /\ last.args.operation_id # NoOp

\* C3: for a fixed non-null operation_id the handler's side effect is applied
\* exactly once by two callers that run the pipeline on it
C3_SideEffectOnce ==
    \A text \in UuidTexts :
        /\ effects[text] <= 1
        /\ ((\A p \in Pipes : pipes[p].pc = "done"
                               /\ pipes[p].item.operation_id = StrOp(text))
               /\ (\E q \in Pipes : pipes[q].outcome = "ok")) => effects[text] = 1

\* C4 as stated: a second enqueue_job call with the arguments of the call that
\* just ended returns the same entry id and changes no row, and storage holds
\* exactly one job_queue row of that key
C4_SecondEnqueueSameEntry ==
    JustEnqueued =>
        \A t \in DbNow :
            LET second == EnqueueJob(jobs, last.args, t) IN
            /\ last.result.kind = "ok"
            /\ second.result = last.result
            /\ second.jobs = jobs
            /\ Cardinality(KeyRows(jobs, last.args.workspace_id,
                                   last.args.operation_id)) = 1

\* C4 amended: the second call has the outcome of the first (the same entry
\* id, or MultipleResultsFound when more than one row of the key is active)
\* and changes no row; exactly one row of the key is pending, processing or
\* completed when an id is returned, failed and dlq_sent rows not counted
C4_SecondEnqueueSameActiveEntry ==
    JustEnqueued =>
        \A t \in DbNow :
            LET second == EnqueueJob(jobs, last.args, t)
                active == {id \in KeyRows(jobs, last.args.workspace_id,
                                          last.args.operation_id) :
                              jobs[id].status \in {"pending", "processing", "completed"}}
            IN
            /\ second.result = last.result
            /\ second.jobs = jobs
            /\ IF Cardinality(active) = 1
               THEN last.result.kind = "ok" /\ active = {last.result.id}
               ELSE Cardinality(active) > 1 /\ last.result = MultipleResultsFound

C4_Witness ==
    /\ JustEnqueued
    /\ last.result.kind = "ok"
    /\ EnqueueJob(jobs, last.args, 0).result = last.result
    /\ Cardinality(KeyRows(jobs, last.args.workspace_id, last.args.operation_id)) = 2

DlqSentRows(workspace_id, operation_id) ==
    {id \in KeyRows(jobs, workspace_id, operation_id) : jobs[id].status = "dlq_sent"}

\* a call of enqueue_job has just run on a key whose job is dlq_sent
EnqueuedAfterDlqSent ==
    JustEnqueued /\ DlqSentRows(last.args.workspace_id, last.args.operation_id) # {}

\* C5 as stated: enqueue_job on the key of a dlq_sent job returns that entry
\* and creates no row
C5_ReturnsDlqSentEntry ==
    EnqueuedAfterDlqSent =>
        /\ last.result.kind = "ok"
        /\ last.result.id \in DlqSentRows(last.args.workspace_id, last.args.operation_id)
        /\ ~last.created

\* C5 amended: enqueue_job on the key of a dlq_sent job never returns the
\* dlq_sent entry; unless another row of the key is pending, processing or
\* completed it creates a new pending row and returns it
C5_NewJobAfterDlqSent ==
    EnqueuedAfterDlqSent =>
        LET active == {id \in KeyRows(jobs, last.args.workspace_id,
                                      last.args.operation_id) :
                          jobs[id].status \in {"pending", "processing", "completed"}}
        IN
        /\ last.result.kind = "ok" =>
              last.result.id \notin DlqSentRows(last.args.workspace_id,
                                                last.args.operation_id)
        /\ last.created =>
              /\ last.result = Ok(Cardinality(DOMAIN jobs))
              /\ active = {last.result.id}
              /\ jobs[last.result.id] = NewJob(last.args, jobs[last.result.id].created_at)
        /\ ~last.created =>
              /\ active # {}
              /\ last.result.kind = "ok" => active = {last.result.id}

C5_Witness == EnqueuedAfterDlqSent /\ last.created

\* job id is failed with attempts below max_attempts and no worker is in a batch
FailedRetryable(id) ==
    /\ id \in DOMAIN jobs
    /\ jobs[id].status = "failed"
    /\ jobs[id].attempts < jobs[id].max_attempts
    /\ \A w \in Workers : workers[w].pc = "idle"

SelectedAgain(id) ==
    \E w \in Workers : workers[w].pc # "idle" /\ id \in Range(workers[w].batch)

\* C6: a job that failed with attempts below max_attempts is selected again
\* by a later process_pending_jobs call (workers polling fairly)
C6_FailedJobSelectedAgain ==
    \A id \in JobIds : FailedRetryable(id) ~> SelectedAgain(id)

\* the job that worker w has in hand
InHand(w) == workers[w].batch[workers[w].idx]

\* worker w runs one pass of the loop body of process_pending_jobs
HandlesJob(w) == workers[w].pc = "loop" /\ workers'[w] # workers[w]

\* the session of worker w has written status dlq_sent to job id
WritesDlqSent(w, id) == id \in DOMAIN tx[w] /\ tx[w][id].status = "dlq_sent"

\* C7: a handler failure that brings attempts to max_attempts creates exactly
\* one dead_letter_queue entry (original_table "job_queue", original_id the
\* job id, retry_count the attempts) and the job becomes dlq_sent; a failure
\* that leaves attempts below max_attempts creates no entry and no dlq_sent
C7_DeadLetterOnExhaustion ==
    [][\A w \in Workers :
        /\ HandlesJob(w) =>
              LET id == InHand(w)
                  row == View(w)'[id] IN
              IF row.status = "failed" /\ row.attempts >= row.max_attempts
              THEN /\ Len(dlq') = Len(dlq) + 1
                   /\ SubSeq(dlq', 1, Len(dlq)) = dlq
                   /\ dlq'[Len(dlq')].original_table = "job_queue"
                   /\ dlq'[Len(dlq')].original_id = id
                   /\ dlq'[Len(dlq')].retry_count = row.attempts
                   /\ workers'[w].pc = "dlq_sent" /\ InHand(w)' = id
              ELSE /\ dlq' = dlq
                   /\ workers'[w].pc # "dlq_sent"
        /\ (workers[w].pc = "dlq_sent" /\ workers'[w] # workers[w]) =>
              View(w)'[InHand(w)].status = "dlq_sent"
        /\ \A id \in DOMAIN jobs :
              (WritesDlqSent(w, id)' /\ ~WritesDlqSent(w, id)) =>
                  /\ workers[w].pc = "dlq_sent" /\ InHand(w) = id
                  /\ View(w)[id].attempts >= View(w)[id].max_attempts
    ]_vars

C7_Witness ==
    /\ \E id \in DOMAIN jobs : jobs[id].status = "dlq_sent" /\ jobs[id].attempts = 1
    /\ \E id \in DOMAIN jobs : jobs[id].status = "failed" /\ jobs[id].attempts = 1
    /\ Len(dlq) = 1

Min(a, b) == IF a <= b THEN a ELSE b

\* job x has a higher priority than job y, or the same and an earlier created_at
GoesFirst(x, y) ==
    \/ jobs[x].priority > jobs[y].priority
    \/ jobs[x].priority = jobs[y].priority /\ jobs[x].created_at < jobs[y].created_at

\* C8: process_pending_jobs(limit) selects at most limit jobs, all pending, none
\* of which an unselected pending job goes before, lists them by priority
\* descending then created_at ascending, and handles them in that order
C8_ClaimOrder ==
    /\ [][\A w \in Workers :
            (workers[w].pc = "idle" /\ workers'[w].pc # "idle") =>
                LET b == workers'[w].batch
                    pending == {id \in DOMAIN jobs : jobs[id].status = "pending"}
                IN
                /\ Len(b) = Min(workers'[w].limit, Cardinality(pending))
                /\ \A i \in DOMAIN b : b[i] \in pending
                /\ \A i, k \in DOMAIN b : i < k => b[i] # b[k] /\ ~GoesFirst(b[k], b[i])
                /\ \A u \in pending \ Range(b) : \A i \in DOMAIN b : ~GoesFirst(u, b[i])
         ]_vars
    /\ [](\A w \in Workers :
            workers[w].pc # "idle" =>
                /\ Len(workers[w].handled) <= Len(workers[w].batch)
                /\ workers[w].handled = SubSeq(workers[w].batch, 1, Len(workers[w].handled)))

C8_Witness ==
    \E w \in Workers :
        /\ workers[w].pc = "commit"
        /\ Len(workers[w].handled) = 2
        /\ jobs[workers[w].handled[1]].priority > jobs[workers[w].handled[2]].priority
        /\ jobs[workers[w].handled[1]].created_at > jobs[workers[w].handled[2]].created_at

\* C10: at most one webhook_events row exists for each workspace and non-null
\* operation_id
C10_OneEventPerOperation ==
    \A ws \in Workspaces, op \in OperationIds \ {NoOp} :
        Cardinality({id \in DOMAIN events : /\ events[id].workspace_id = ws
                                            /\ events[id].operation_id = op}) <= 1

\* process_webhook_event has just left its try block for a new event
HandlesEvent(h) == hooks[h].pc = "create" /\ hooks'[h].pc # "create"

C12_HandlerRunsToCeiling ==
    \A id \in DOMAIN events :
        /\ runs[id] <= RetryCeiling
        /\ events[id].status = "dlq_sent" => events[id].attempts = RetryCeiling

\* caller p of process_job / process_webhook_event gets the ledger's answer
AsksLedger(p) == pipes[p].pc = "idle" /\ pipes'[p].pc # "idle" /\ ~pipes'[p].direct

\* the call of caller p ends on a ledger hit
EndsOnHit(p) == pipes[p].pc = "done" /\ pipes[p].outcome = "skipped"

\* the UUID an operation_id stands for, NoOp when it stands for none
UuidOf(op) ==
    IF op.type = "UUID" THEN op.text
    ELSE IF op.type = "str" /\ ParseUuid(op).kind = "ok" THEN ParseUuid(op).uuid
    ELSE NoOp

\* a processed webhook event or a completed job of the workspaces W carries
\* the operation id
RecordedIn(W, op) ==
    /\ UuidOf(op) # NoOp
    /\ \/ \E id \in DOMAIN events : /\ events[id].workspace_id \in W
                                     /\ events[id].operation_id = UuidOf(op)
                                     /\ events[id].status = "processed"
       \/ \E id \in DOMAIN jobs : /\ jobs[id].workspace_id \in W
                                   /\ jobs[id].operation_id = UuidOf(op)
                                   /\ jobs[id].status = "completed"

\* an llm_turns row carries the operation id
TurnRecorded(op) == op.type = "str" /\ op.text \in turns

\* C13: the ledger reports a hit for work of a workspace only when an llm turn,
\* or a processed event or completed job of that same workspace, carries the
\* operation id
C13_LedgerTenantScoped ==
    [][\A p \in Pipes :
        (AsksLedger(p) /\ EndsOnHit(p)') =>
            LET item == pipes'[p].item IN
            TurnRecorded(item.operation_id)
                \/ RecordedIn({item.workspace_id}, item.operation_id)
    ]_vars

\* C14: for work whose operation_id is None or no UUID the ledger answers
\* false without raising and the handler is invoked, whatever the tables hold
C14_NoDedupeWithoutUuid ==
    [][\A p \in Pipes :
        (AsksLedger(p) /\ pipes'[p].item.operation_id \in {NoneOp, StrOp("not-a-uuid")})
            => pipes'[p].pc = "retry"
    ]_vars

\* C15: when is_operation_processed reports true, process_job /
\* process_webhook_event return normally, the handler is not invoked even
\* once and nothing goes to the dead-letter queue
C15_HitSkipsHandler ==
    /\ [][\A p \in Pipes, item \in PipeItems :
            (AsksLedger(p) /\ pipes'[p].item = item
                /\ IsOperationProcessed(item.operation_id) = "true") =>
                    /\ EndsOnHit(p)'
                    /\ pipes'[p].calls = 0 /\ pipes'[p].error = 0
                    /\ effects' = effects
                    /\ dlq' = dlq
         ]_vars
    /\ [][\A p \in Pipes : EndsOnHit(p) => pipes'[p] = pipes[p]]_vars

C15_Witness ==
    /\ EndsOnHit("p1")
    /\ pipes["p1"].item.kind = "event"
    /\ RecordedIn({pipes["p1"].item.workspace_id}, pipes["p1"].item.operation_id)
    /\ ~TurnRecorded(pipes["p1"].item.operation_id)
    /\ effects[pipes["p1"].item.operation_id.text] = 0

\* C16: for an operation id given as a string, is_operation_processed returns
\* true exactly when an llm_turns row, a processed webhook event or a
\* completed job carries the operation id
C16_TrueIffRecorded ==
    [][\A p \in Pipes :
        (AsksLedger(p) /\ pipes'[p].item.operation_id.type = "str") =>
            LET op == pipes'[p].item.operation_id IN
            EndsOnHit(p)' <=> (TurnRecorded(op) \/ RecordedIn(Workspaces, op))
    ]_vars

\* C17: retry_async(func, retries = n), n >= 1, invokes func until its first
\* success and then not again; when the first n invocations fail, func was
\* invoked exactly n times and the exception of the n-th is raised
C17_RetryAsyncInvocations ==
    /\ [](\A p \in Pipes :
            (pipes[p].pc # "idle" /\ pipes[p].direct /\ pipes[p].retries >= 1) =>
                LET pp == pipes[p] IN
                IF pp.pc = "retry"
                THEN pp.calls = pp.attempt /\ pp.calls < pp.retries
                ELSE \/ pp.outcome = "ok" /\ pp.calls \in 1..pp.retries /\ pp.error = 0
                     \/ /\ pp.outcome = "raised"
                        /\ pp.calls = pp.retries /\ pp.error = pp.retries)
    /\ [][\A p \in Pipes :
            /\ pipes[p].pc = "done" => pipes'[p] = pipes[p]
            /\ (pipes[p].pc = "retry" /\ pipes'[p] # pipes[p]) =>
                   /\ pipes'[p].calls = pipes[p].calls + 1
                   /\ pipes'[p].outcome = "ok" =>
                          effects'[pipes[p].item.operation_id.text] =
                              effects[pipes[p].item.operation_id.text] + 1
                   /\ pipes'[p].outcome # "ok" => effects' = effects
         ]_vars

C17_Witness ==
    /\ pipes["p1"].pc = "done" /\ pipes["p1"].outcome = "raised"
    /\ pipes["p1"].calls = MaxRetries
    /\ pipes["p2"].pc = "done" /\ pipes["p2"].outcome = "ok"
    /\ pipes["p2"].calls = 2

\* C9: a job whose job_type has no handler is not treated as a transient
\* failure: its attempts stay 0 and it is neither failed nor dead-lettered
C9_UnknownTypeNotRetried ==
    \A id \in DOMAIN jobs :
        jobs[id].job_type \notin KnownJobTypes =>
            /\ jobs[id].attempts = 0
            /\ jobs[id].status \notin {"failed", "dlq_sent"}
            /\ \A i \in DOMAIN dlq :
                  ~(dlq[i].original_table = "job_queue" /\ dlq[i].original_id = id)

\* the claim's x: min(base_delay * multiplier^(attempt - 1), max_delay)
CappedDelay(attempt) ==
    Smaller(BaseDelayMinutes * Power(1, Multiplier, attempt - 1, MaxDelayMinutes),
            MaxDelayMinutes)

\* C18: for every attempt >= 1 and every jitter factor in [0.75, 1.25]
\* calculate_delay returns a delay within [0.75 x, 1.25 x] of the capped delay
\* x and never below 1; for every attempt <= 0 it returns 0
C18_DelayWithinJitterBand ==
    backoff # NotCalled =>
        IF backoff.attempt <= 0
        THEN backoff.result = Returns(0)
        ELSE LET x == CappedDelay(backoff.attempt)
                 delay == backoff.result.value
             IN  /\ backoff.result.kind = "ok"
                 /\ JitterLow * x <= JitterScale * delay
                 /\ JitterScale * delay <= JitterHigh * x
                 /\ delay >= 1

\* C19: whatever sequence of add_to_dlq and mark_retry_attempt calls ran, every
\* stored dead-letter entry has retry_count <= max_retries
C19_RetryCountWithinMax ==
    \A id \in Stored : dlq[id].retry_count <= dlq[id].max_retries

\* the entry was added with retry_count = 0 and has received exactly
\* max_retries mark_retry_attempt calls since, every one of them a failed one
ReceivedMaxRetriesFailures(id) ==
    /\ marked[id].added /\ marked[id].retry_count = 0
    /\ marked[id].succeeded = 0
    /\ marked[id].calls = marked[id].failed
    /\ id \in 1..Len(dlq) /\ marked[id].failed = dlq[id].max_retries

\* C20: an entry added with retry_count = 0 that received exactly max_retries
\* failed mark_retry_attempt calls is terminal: it stays stored, no
\* get_pending_retry returns it whatever the clock reads, and the call that
\* used up the retries scheduled no new next_retry_at
C20_ExhaustedEntryTerminal ==
    /\ [](\A id \in DlqIds :
            ReceivedMaxRetriesFailures(id) =>
                /\ id \in Stored
                /\ \A t \in 0..(MaxNow + RepositoryDelay + 1) :
                       id \notin PendingRetry(dlq, dlqGone, t))
    /\ [][\A id \in DlqIds :
            (~ReceivedMaxRetriesFailures(id) /\ ReceivedMaxRetriesFailures(id)') =>
                dlq'[id].next_retry_at = dlq[id].next_retry_at]_vars

\* C29: for every attempt and every jitter factor in [0.75, 1.25] the delay
\* calculate_delay returns never exceeds max_delay_minutes
C29_DelayWithinMaxDelay ==
    (backoff # NotCalled /\ backoff.result.kind = "ok") =>
        backoff.result.value <= MaxDelayMinutes

\* the step ends a mark_retry_attempt(id, success = True) call of caller m
MarksSuccess(m, id) ==
    /\ markers[m].pc = "loaded" /\ markers[m].id = id /\ markers[m].success
    /\ markers'[m] = IdleMarker

\* C21: mark_retry_attempt(id, success = True) on an existing entry deletes it,
\* whatever its retry_count and next_retry_at were, and no get_pending_retry
\* returns it afterwards; mark_retry_attempt on an id that does not exist
\* changes nothing and raises no error
C21_SuccessDeletesEntry ==
    /\ [][\A m \in Markers, id \in DlqIds :
            MarksSuccess(m, id) =>
                /\ last'.outcome = "ok"
                /\ id \notin Stored'
                /\ \A t \in 0..(MaxNow + RepositoryDelay + 1) :
                       id \notin PendingRetry(dlq', dlqGone', t)]_vars
    /\ [][dlqGone \subseteq dlqGone']_vars
    /\ [](\A id \in DlqIds :
            /\ marked[id].succeeded > 0 => id \in dlqGone
            /\ (id \in dlqGone /\ last.kind = "get_pending_retry") =>
                   \A i \in DOMAIN last.result : last.result[i] # id)
    /\ [][\A id \in DlqIds :
            (id \notin Stored /\ last' = [kind |-> "mark_retry_attempt", id |-> id,
                                          outcome |-> "not found"]) =>
                /\ dlq' = dlq /\ dlqGone' = dlqGone
                /\ markers' = markers /\ marked' = marked]_vars

C21_Witness ==
    /\ 1 \in dlqGone /\ marked[1].succeeded = 1
    /\ dlq[1].retry_count < dlq[1].max_retries /\ dlq[1].next_retry_at = NullTime
    /\ last.kind = "get_pending_retry" /\ last.result = <<>>

\* the step ends a mark_retry_attempt(id, success = False) call of caller m
\* that leaves the stored entry with retry_count below max_retries
MarksFailureBelowMax(m, id) ==
    /\ markers[m].pc = "loaded" /\ markers[m].id = id /\ ~markers[m].success
    /\ markers'[m] = IdleMarker
    /\ id \in Stored' /\ dlq'[id].retry_count < dlq'[id].max_retries

\* C22: a failed mark_retry_attempt that leaves retry_count below max_retries
\* sets next_retry_at to the time of the call plus the supplied delay, or, when
\* none is supplied, plus the backoff delay of the new retry_count; and
\* get_pending_retry returns such an entry at no time before next_retry_at and
\* (limit permitting) at every time from next_retry_at on
C22_NextRetryScheduled ==
    /\ [][\A m \in Markers, id \in DlqIds :
            MarksFailureBelowMax(m, id) =>
                IF markers[m].delay # NoDelay
                THEN dlq'[id].next_retry_at = now + markers[m].delay
                ELSE \E jitter \in Jitters :
                        LET delay == CalculateDelay(dlq'[id].retry_count, jitter) IN
                        delay.kind = "ok" /\ dlq'[id].next_retry_at = now + delay.value]_vars
    /\ [](\A id \in Stored :
            (dlq[id].retry_count < dlq[id].max_retries /\ dlq[id].next_retry_at # NullTime) =>
                /\ \A t \in 0..(MaxNow + RepositoryDelay + 1) :
                       id \in PendingRetry(dlq, dlqGone, t) <=> t >= dlq[id].next_retry_at
                /\ last.kind = "get_pending_retry" =>
                       /\ (\E i \in DOMAIN last.result : last.result[i] = id) =>
                              now >= dlq[id].next_retry_at
                       /\ (now >= dlq[id].next_retry_at /\ last.short) =>
                              \E i \in DOMAIN last.result : last.result[i] = id)

Terminal == {"completed", "dlq_sent"}

\* worker w runs the loop body on a job in this step
Handles(w) == workers[w].pc = "loop" /\ workers'[w] # workers[w]

\* C27: a job enters processing only from pending; once it is completed or
\* dlq_sent its status never changes again and no later claim selects it,
\* however the workers interleave
C27_StatusFollowsLifecycle ==
    /\ [][\A id \in DOMAIN jobs :
            jobs[id].status \in Terminal => jobs'[id].status = jobs[id].status]_vars
    /\ [][\A w \in Workers :
            Handles(w) => View(w)[workers[w].batch[workers[w].idx]].status = "pending"]_vars
    /\ [][\A w \in Workers :
            (workers[w].pc = "idle" /\ workers'[w].pc = "loop") =>
                \A i \in DOMAIN workers'[w].batch :
                    jobs[workers'[w].batch[i]].status \notin Terminal]_vars

\* C28: at most one dead_letter_queue entry exists for an origin row
\* (original_table, original_id)
C28_OneEntryPerOrigin ==
    \A i, k \in DOMAIN dlq :
        (/\ dlq[i].original_table = dlq[k].original_table
         /\ dlq[i].original_id = dlq[k].original_id) => i = k

\* C24: however many sequential or concurrent create_llm_turn calls carry an
\* operation_id, one llm_turns row exists for it and every call returns that
\* row; the call that loses the insert race raises no uniqueness violation
C24_CreateLlmTurnIdempotent ==
    \A u \in TurnCallers :
        turners[u].pc = "done" =>
            /\ turners[u].outcome \in {"created", "existing"}
            /\ turners[u].operation_id \in turns

\* C30: a second request with the same operation_id that arrives less than
\* ttl_seconds after the first is answered by DedupeMiddleware itself and is
\* not passed on to the downstream handler
C30_SecondRequestNotForwarded ==
    now < TtlSeconds =>
        \A header \in DedupeHeaders \ {NoOp} : forwarded[header] <= 1
\* the stored messages of a request's workspace, thread and operation id, among
\* the first n rows of the table
TurnRows(n, a, role) ==
    {i \in 1..n : /\ messages[i].workspace_id = a.workspace_id
                  /\ messages[i].thread_id = a.thread_id
                  /\ messages[i].operation_id # NoOp
                  /\ messages[i].operation_id = ParseOperationId(a.x_operation_id).value
                  /\ messages[i].role = role}

\* requests of one workspace, thread and operation id
SameTurn(a, b) ==
    /\ a.workspace_id = b.workspace_id /\ a.thread_id = b.thread_id
    /\ ParseOperationId(a.x_operation_id).kind = "ok"
    /\ ParseOperationId(a.x_operation_id).value # NoOp
    /\ ParseOperationId(a.x_operation_id) = ParseOperationId(b.x_operation_id)

\* a request whose commit the unique index refused
LostRace(r) == reqs[r].pc = "reread" \/ (reqs[r].pc = "done" /\ reqs[r].path \in {"race", "NoResultFound"})

\* C23: of the turn requests in flight together for one workspace, thread and
\* X-Operation-Id, exactly one user and one assistant message are stored; the
\* request whose commit is refused finds both rows when it re-reads, answers
\* 200 with the ids of the stored rows, the ids the other request answered
\* with, and never answers with an error.
C23_RaceLoserReturnsWinnerRows ==
    /\ \A r \in Requests :
          reqs[r].pc # "idle" /\ ParseOperationId(reqs[r].args.x_operation_id).kind = "ok" =>
              /\ Cardinality(TurnRows(Len(messages), reqs[r].args, "user")) <= 1
              /\ Cardinality(TurnRows(Len(messages), reqs[r].args, "assistant")) <= 1
    /\ \A r \in Requests :
          LostRace(r) =>
              /\ Cardinality(TurnRows(Len(messages), reqs[r].args, "user")) = 1
              /\ Cardinality(TurnRows(Len(messages), reqs[r].args, "assistant")) = 1
              /\ reqs[r].pc = "done" =>
                    /\ reqs[r].status = 200
                    /\ \E i \in TurnRows(Len(messages), reqs[r].args, "user") :
                          reqs[r].user_message.id = messages[i].id
                    /\ \E i \in TurnRows(Len(messages), reqs[r].args, "assistant") :
                          reqs[r].assistant_message.id = messages[i].id
    /\ \A r, q \in Requests :
          /\ reqs[r].pc = "done" /\ reqs[q].pc = "done"
          /\ SameTurn(reqs[r].args, reqs[q].args)
          /\ LostRace(r)
          => /\ reqs[q].status = 200
             /\ reqs[q].user_message.id = reqs[r].user_message.id
             /\ reqs[q].assistant_message.id = reqs[r].assistant_message.id

\* two requests of one operation were in flight together, with different
\* bodies: one stored its messages, the other was refused by the index and
\* answered with the stored ids
C23_Witness ==
    \E r, q \in Requests :
        /\ reqs[r].pc = "done" /\ reqs[r].path = "created"
        /\ reqs[q].pc = "done" /\ reqs[q].path = "race" /\ reqs[q].status = 200
        /\ SameTurn(reqs[r].args, reqs[q].args)
        /\ reqs[r].args.content # reqs[q].args.content
        /\ reqs[q].user_message = reqs[r].user_message
        /\ reqs[q].assistant_message = reqs[r].assistant_message
        /\ Len(messages) = 2

\* a request whose operation was recorded for its workspace and thread when
\* it arrived
Repeated(rq) ==
    /\ rq.pc # "idle"
    /\ TurnRows(rq.seen, rq.args, "user") \cup TurnRows(rq.seen, rq.args, "assistant") # {}

\* C25: a turn request that arrives when its X-Operation-Id is recorded for
\* its workspace and thread answers 200 with the stored user and assistant
\* messages, ids and contents, whatever its body, and none of its steps adds
\* a message or an audit row.
C25_RepeatedTurnReturnsStored ==
    /\ [](\A r \in Requests :
            Repeated(reqs[r]) /\ reqs[r].pc = "done" =>
                /\ reqs[r].status = 200
                /\ \E i \in TurnRows(reqs[r].seen, reqs[r].args, "user") :
                      reqs[r].user_message = ToMsg(messages[i])
                /\ \E i \in TurnRows(reqs[r].seen, reqs[r].args, "assistant") :
                      reqs[r].assistant_message = ToMsg(messages[i]))
    /\ [][\A r \in Requests :
            reqs'[r] # reqs[r] /\ Repeated(reqs'[r]) =>
                messages' = messages /\ audits' = audits]_vars

\* a repeated request with another body got the stored messages back
C25_Witness ==
    \E r \in Requests :
        /\ Repeated(reqs[r]) /\ reqs[r].pc = "done" /\ reqs[r].path = "dedupe"
        /\ reqs[r].status = 200
        /\ reqs[r].user_message.content # reqs[r].args.content
        /\ reqs[r].assistant_message.content # Echo(reqs[r].args.content)
        /\ Len(messages) = 2 /\ Len(audits) = 1


\* a job that waits: its row is pending and no worker has started it
PendingJob(id) == id \in DOMAIN jobs /\ jobs[id].status = "pending" /\ claimedBy[id] = {}

\* a worker has started the job
ClaimedJob(id) == id \in DOMAIN jobs /\ claimedBy[id] # {}

\* another waiting job that the ORDER BY does not put after this one
NotBehind(id) ==
    /\ id \in DOMAIN jobs
    /\ \E k \in DOMAIN jobs \ {id} : PendingJob(k) /\ ~Before(jobs[id], jobs[k])

\* C26 as stated: every pending job is eventually claimed while the workers
\* keep calling process_pending_jobs, whatever else is enqueued.
C26_PendingEventuallyClaimed ==
    \A id \in JobIds : PendingJob(id) ~> ClaimedJob(id)

\* C26: while the workers keep calling process_pending_jobs, every pending job
\* is eventually claimed or has another pending job beside it that the order
\* (priority DESC, created_at ASC) does not put after it; a job is claimed
\* once no such job is enqueued any more.
C26_ClaimedUnlessOvertaken ==
    \A id \in JobIds : PendingJob(id) ~> (ClaimedJob(id) \/ NotBehind(id))

\* a job of priority 0 was claimed although the table was full and a job was
\* enqueued after it in the place of a settled one
C26_Witness ==
    \E id, k \in DOMAIN jobs :
        /\ id # k /\ Cardinality(DOMAIN jobs) = MaxJobs
        /\ ClaimedJob(id) /\ jobs[id].priority = 0 /\ jobs[id].status = "completed"
        /\ PendingJob(k) /\ jobs[k].priority = 0
        /\ last.kind = "done" /\ last.result = Ok(k) /\ k < id

====
